---------------------------- MODULE Spec2Model ----------------------------
(* grepdef: the concurrent two-phase symbol-definition search.               *)
(*                                                                            *)
(* A text is a sequence of symbols. A symbol is one character, except that a  *)
(* keyword of a pattern's alternation ("function", "var", "trait") and the    *)
(* literal "@typedef" are written as one symbol each; "BAD" is a byte that is *)
(* not valid UTF-8 and "NUL" is the zero byte a fresh read buffer holds.      *)
EXTENDS Integers, Sequences, FiniteSets, TLC

(* ------------------------------ bounds ---------------------------------- *)
\* most worker threads a pool is created with
MaxWorkers == 2
\* most root paths of one configuration
MaxRoots == 2
\* most lines of a scanned file content
MaxLines == 2
\* size of the read buffer of the streaming pre-scan (2048 in the source)
BufSize == 3

(* ------------------------------ symbols --------------------------------- *)
None == <<>>
Some(n) == <<n>>

\* symbols whose first character is a word character (\w)
WordLeft == {"f", "o", "x", "function", "var", "trait"}
\* symbols whose last character is a word character: "@typedef" ends in f
WordRight == WordLeft \cup {"@typedef"}
\* \s of the regex crate and char::is_whitespace of str::trim
IsSpace(c) == c \in {" ", "\t", "\n"}
NotCloseParen(c) == c # ")"
NotOpenBrace(c) == c # "{"
NotCloseBrace(c) == c # "}"
\* the character classes of the query patterns
InClass(class, c) ==
    CASE class = "\\s" -> IsSpace(c)
      [] class = "[^)]" -> NotCloseParen(c)
      [] class = "[^{]" -> NotOpenBrace(c)
      [] class = "[^}]" -> NotCloseBrace(c)

(* --------------------------- the regex engine --------------------------- *)
(* A pattern piece maps a set of start positions to the set of positions    *)
(* where a match of the piece can end; position p is just before text[p].   *)
AllPositions(text) == 1..(Len(text) + 1)

\* \b : exactly one side of the position is a word character
AtWordBoundary(text, p) ==
    LET l == p > 1 /\ text[p - 1] \in WordRight
        r == p <= Len(text) /\ text[p] \in WordLeft
    IN l # r

WordB(text, P) == {p \in P : AtWordBoundary(text, p)}

\* a literal string
Lit(text, P, lit) ==
    {p + Len(lit) : p \in {q \in P : /\ q + Len(lit) - 1 <= Len(text)
                                     /\ \A i \in 1..Len(lit) : text[q + i - 1] = lit[i]}}

\* an alternation of one-symbol keywords
AnyOf(text, P, kws) == {p + 1 : p \in {q \in P : q <= Len(text) /\ text[q] \in kws}}

\* c* for a character class c
Star(text, P, class) ==
    {e \in AllPositions(text) :
        \E p \in P : p <= e /\ \A i \in p..(e - 1) : InClass(class, text[i])}

\* c+ for a character class c
Plus(text, P, class) ==
    Star(text, {p + 1 : p \in {q \in P : q <= Len(text) /\ InClass(class, text[q])}}, class)

FileTypes == {"JS", "PHP"}
KeywordsJS == {"function", "var", "let", "const", "class", "interface", "type"}
KeywordsPHP == {"function", "class", "trait", "interface", "enum"}

\* \b(function|var|let|const|class|interface|type)\s+{query}\b
JsDeclaration(text, query) ==
    WordB(text, Lit(text, Plus(text, AnyOf(text, WordB(text, AllPositions(text)), KeywordsJS), "\\s"), query))

\* \b{query}\([^)]*\)\s*(:[^\{]+)?\{
JsFunction(text, query) ==
    LET args == Lit(text, Lit(text, WordB(text, AllPositions(text)), query), <<"(">>)
        closed == Lit(text, Star(text, args, "[^)]"), <<")">>)
        spaced == Star(text, closed, "\\s")
        typed == Plus(text, Lit(text, spaced, <<":">>), "[^{]")
    IN Lit(text, spaced \cup typed, <<"{">>)

\* \b{query}:
JsProperty(text, query) ==
    Lit(text, Lit(text, WordB(text, AllPositions(text)), query), <<":">>)

\* @typedef\s*(\{[^\}]+\})?\s*{query}\b
JsTypedef(text, query) ==
    LET tag == Star(text, Lit(text, AllPositions(text), <<"@typedef">>), "\\s")
        braced == Lit(text, Plus(text, Lit(text, tag, <<"{">>), "[^}]"), <<"}">>)
    IN WordB(text, Lit(text, Star(text, tag \cup braced, "\\s"), query))

\* \b(function|class|trait|interface|enum) {query}\b
PhpDeclaration(text, query) ==
    WordB(text, Lit(text, Lit(text, AnyOf(text, WordB(text, AllPositions(text)), KeywordsPHP), <<" ">>), query))

\* the compiled pattern of a query, as the set of end positions of its matches
get_regexp_for_query(text, query, file_type) ==
    IF file_type = "JS"
    THEN JsDeclaration(text, query) \cup JsFunction(text, query)
         \cup JsProperty(text, query) \cup JsTypedef(text, query)
    ELSE PhpDeclaration(text, query)

\* Regex::is_match
is_match(text, query, file_type) == get_regexp_for_query(text, query, file_type) # {}


(* ------------------------------ file reads ------------------------------ *)
SearchMethods == {"PrescanRegex", "PrescanMemmem", "NoPrescan"}

\* String::from_utf8 of the bytes read: fails on any byte that is not UTF-8
IsUtf8(bytes) == \A i \in 1..Len(bytes) : bytes[i] # "BAD"

FirstNewline(bytes) ==
    IF \E i \in 1..Len(bytes) : bytes[i] = "\n"
    THEN CHOOSE i \in 1..Len(bytes) : bytes[i] = "\n" /\ \A j \in 1..(i - 1) : bytes[j] # "\n"
    ELSE 0

\* BufRead::lines: the byte runs ended by "\n" (not part of the line), and the
\* rest after the last "\n" when it is not empty
RECURSIVE Lines(_)
Lines(bytes) ==
    IF bytes = <<>> THEN <<>>
    ELSE LET nl == FirstNewline(bytes)
         IN IF nl = 0 THEN <<bytes>>
            ELSE <<SubSeq(bytes, 1, nl - 1)>> \o Lines(SubSeq(bytes, nl + 1, Len(bytes)))

\* str::trim
RECURSIVE TrimStart(_)
TrimStart(text) ==
    IF text # <<>> /\ IsSpace(Head(text)) THEN TrimStart(Tail(text)) ELSE text

RECURSIVE TrimEnd(_)
TrimEnd(text) ==
    IF text # <<>> /\ IsSpace(text[Len(text)])
    THEN TrimEnd(SubSeq(text, 1, Len(text) - 1)) ELSE text

Trim(text) == TrimEnd(TrimStart(text))

\* mutant: line_counter is advanced for the lines that are kept only
MatchingLines_CountKept(content, config) ==
    LET lines == Lines(content)
        kept == SelectSeq([i \in 1..Len(lines) |-> i],
                    LAMBDA i : IsUtf8(lines[i]) /\ is_match(lines[i], config.query, config.file_type))
    IN [k \in 1..Len(kept) |-> k]

\* the 1-based positions of the lines the filter_map keeps: a line that does
\* not decode is counted and skipped
MatchingLines(content, config) ==
    LET lines == Lines(content)
    IN SelectSeq([i \in 1..Len(lines) |-> i],
                 LAMBDA i : IsUtf8(lines[i]) /\ is_match(lines[i], config.query, config.file_type))

SearchResult(file_path, config, line_counter, line) ==
    [file_path |-> file_path,
     line_number |-> IF config.line_number THEN Some(line_counter) ELSE None,
     text |-> Trim(line)]

\* mutant: the pass ends at the first line that does not decode
search_file_line_by_line_StopAtError(file_path, content, config) ==
    LET lines == Lines(content)
        kept == SelectSeq(MatchingLines(content, config),
                          LAMBDA i : \A j \in 1..i : IsUtf8(lines[j]))
    IN [k \in 1..Len(kept) |-> SearchResult(file_path, config, kept[k], lines[kept[k]])]

\* mutant: the results are collected last line first
search_file_line_by_line_Reversed(file_path, content, config) ==
    LET lines == Lines(content)
        kept == MatchingLines(content, config)
        last == Len(kept) + 1
    IN [k \in 1..Len(kept) |->
           SearchResult(file_path, config, kept[last - k], lines[kept[last - k]])]

search_file_line_by_line(file_path, content, config) ==
    LET lines == Lines(content)
        kept == MatchingLines(content, config)
    IN [k \in 1..Len(kept) |-> SearchResult(file_path, config, kept[k], lines[kept[k]])]

\* mutant: a content that does not decode is passed on to the line pass
does_file_match_regexp_PassOnError(content, config) ==
    IF Len(content) = 0 THEN FALSE
    ELSE IF ~IsUtf8(content) THEN TRUE
    ELSE is_match(content, config.query, config.file_type)

\* read_to_string, then the pattern on the whole buffer
does_file_match_regexp(content, config) ==
    IF ~IsUtf8(content) \/ Len(content) = 0 THEN FALSE
    ELSE is_match(content, config.query, config.file_type)

(* the streaming literal pre-scan *)
\* memmem::Finder::find(..).is_some()
Find(haystack, needle) ==
    \E p \in 1..(Len(haystack) - Len(needle) + 1) :
        \A i \in 1..Len(needle) : haystack[p + i - 1] = needle[i]

\* full.rsplit(|b| b == '\n').next(): what follows the last newline
AfterLastNewline(full) ==
    LET last == CHOOSE i \in 1..Len(full) :
                    full[i] = "\n" /\ \A j \in (i + 1)..Len(full) : full[j] # "\n"
    IN SubSeq(full, last + 1, Len(full))

\* let mut full = vec![]; let mut buf = [0u8; 2048]
PrescanStart == [full |-> <<>>, buf |-> [i \in 1..BufSize |-> "NUL"], off |-> 0]

\* one turn of the loop in which read returned n > 0 bytes
PrescanRead(st, content, n) ==
    LET buf == [i \in 1..BufSize |-> IF i <= n THEN content[st.off + i] ELSE st.buf[i]]
        kept == IF \E i \in 1..Len(st.full) : st.full[i] = "\n"
                THEN AfterLastNewline(st.full) ELSE st.full
    IN [full |-> kept \o buf, buf |-> buf, off |-> st.off + n]

\* File::read on a regular file fills the buffer up to the end of the file
FullRead(st, content) ==
    IF Len(content) - st.off < BufSize THEN Len(content) - st.off ELSE BufSize

RECURSIVE PrescanLoop(_, _, _)
PrescanLoop(st, content, query) ==
    IF FullRead(st, content) = 0 THEN FALSE
    ELSE LET next == PrescanRead(st, content, FullRead(st, content))
         IN IF Find(next.full, query) THEN TRUE ELSE PrescanLoop(next, content, query)

does_file_match_query(content, query) == PrescanLoop(PrescanStart, content, query)

(* a file of the tree: what open, read and rewind do on it *)
\* the if of search_file: TRUE when the pre-scan finds no match
PrescanSkips(file, config) ==
    CASE config.search_method = "PrescanRegex" -> ~does_file_match_regexp(file.content, config)
      [] config.search_method = "PrescanMemmem" -> ~does_file_match_query(file.content, config.query)
      [] config.search_method = "NoPrescan" -> FALSE

\* the offset of the file when does_file_match_query returns: the end of the
\* last chunk it has read
RECURSIVE PrescanOffset(_, _, _)
PrescanOffset(st, content, query) ==
    IF FullRead(st, content) = 0 THEN st.off
    ELSE LET next == PrescanRead(st, content, FullRead(st, content))
         IN IF Find(next.full, query) THEN next.off ELSE PrescanOffset(next, content, query)

\* the offset of the file after the pre-scan: read_to_string reads to the end,
\* does_file_match_query to the end of the chunk with the hit, NoPrescan nothing
PrescanConsumed(file, config) ==
    CASE config.search_method = "PrescanRegex" -> Len(file.content)
      [] config.search_method = "PrescanMemmem" ->
             PrescanOffset(PrescanStart, file.content, config.query)
      [] config.search_method = "NoPrescan" -> 0

\* mutant: the file is left where the pre-scan stopped
rewind_Stay(pos) == pos

\* file.rewind(): seek(SeekFrom::Start(0)), as the new offset
rewind(pos) == 0

\* what io::BufReader::new(file) reads: the bytes from the offset on
ReadFrom(content, pos) == SubSeq(content, pos + 1, Len(content))

\* mutant: the branch of the rejecting pre-scan calls back and does not return
search_file_after_NoReturn(file, config, skip) ==
    IF ~file.open_ok THEN << <<>> >>
    ELSE (IF skip THEN << <<>> >> ELSE <<>>)
         \o (IF ~file.rewind_ok THEN << <<>> >>
             ELSE <<search_file_line_by_line(file.path,
                        ReadFrom(file.content, rewind(PrescanConsumed(file, config))), config)>>)

\* mutant: the result of rewind is not looked at
search_file_after_RewindUnchecked(file, config, skip) ==
    IF ~file.open_ok THEN << <<>> >>
    ELSE IF skip THEN << <<>> >>
    ELSE <<search_file_line_by_line(file.path,
               ReadFrom(file.content, rewind(PrescanConsumed(file, config))), config)>>

\* the arguments search_file calls its callback with, in order, given the
\* outcome of the pre-scan
search_file_after(file, config, skip) ==
    IF ~file.open_ok THEN << <<>> >>
    ELSE IF skip THEN << <<>> >>
    ELSE IF ~file.rewind_ok THEN << <<>> >>
    ELSE <<search_file_line_by_line(file.path,
               ReadFrom(file.content, rewind(PrescanConsumed(file, config))), config)>>

search_file(file, config) == search_file_after(file, config, PrescanSkips(file, config))


(* ------------------------------ the tree -------------------------------- *)
\* a path is the sequence of its parts between the dots: a.js is <<"a","js">>
\* \.(js|jsx|ts|tsx|mjs|cjs)$ and \.php$
get_regexp_for_file_type(file_type) ==
    IF file_type = "JS" THEN {"js", "jsx", "ts", "tsx", "mjs", "cjs"} ELSE {"php"}

\* Regex::is_match of the extension pattern on a path
path_matches(path, file_type) ==
    Len(path) >= 2 /\ path[Len(path)] \in get_regexp_for_file_type(file_type)

Query == <<"f", "o">>

\* the files of the tree the searches run on
Tree ==
    {[path |-> <<"src/a", "js">>, open_ok |-> TRUE, rewind_ok |-> TRUE,
      content |-> <<" ", "f", "o", ":", "\n", "x", "\n", "function", " ", "f", "o">>],
     [path |-> <<"src/b", "php">>, open_ok |-> TRUE, rewind_ok |-> TRUE,
      content |-> <<"function", " ", "f", "o", "\n", "f", "o", ":">>],
     [path |-> <<"tmp/secret", "js">>, open_ok |-> FALSE, rewind_ok |-> TRUE,
      content |-> <<"f", "o", ":">>],
     [path |-> <<"tmp/pipe", "php">>, open_ok |-> TRUE, rewind_ok |-> FALSE,
      content |-> <<"trait", " ", "f", "o">>],
     [path |-> <<"lib/c", "js">>, open_ok |-> TRUE, rewind_ok |-> TRUE,
      content |-> <<"var", "\t", "f", "o", " ">>],
     [path |-> <<"lib/d", "php">>, open_ok |-> TRUE, rewind_ok |-> TRUE,
      content |-> <<"x", "\n", "f", "o", "x">>]}

FileAt(path) == CHOOSE f \in Tree : f.path = path

Dir(path) == [kind |-> "dir", path |-> path]
File(path) == [kind |-> "file", path |-> path]

RootPaths == {"src", "src/b.php", "lib", "tmp", "locked", "odd"}

\* Walk::new(root): the entries the walker yields, in order. An entry is a
\* directory, a file, an error, or a file whose name is not valid UTF-8
Walk(root) ==
    CASE root = "src" ->
           <<Dir(<<"src">>), File(<<"src/a", "js">>), File(<<"src/b", "php">>)>>
      [] root = "src/b.php" -> <<File(<<"src/b", "php">>)>>
      [] root = "tmp" -> <<Dir(<<"tmp">>), File(<<"tmp/pipe", "php">>), File(<<"tmp/secret", "js">>)>>
      [] root = "lib" -> <<Dir(<<"lib">>), File(<<"lib/c", "js">>), File(<<"lib/d", "php">>)>>
      [] root = "locked" -> <<Dir(<<"locked">>), [kind |-> "err", path |-> <<>>]>>
      [] root = "odd" -> <<Dir(<<"odd">>), [kind |-> "nonutf8", path |-> <<>>]>>
      [] root = "." -> <<Dir(<<".">>)>>

RECURSIVE SeqsUpTo(_, _)
SeqsUpTo(S, n) ==
    IF n = 0 THEN {<<>>}
    ELSE LET shorter == SeqsUpTo(S, n - 1)
         IN shorter \cup {Append(s, x) : s \in shorter, x \in S}

\* the configurations search is run with on the tree: line numbers on and the
\* default search method, as Args::default and the integration tests set them
Configs ==
    [query : {Query}, file_paths : SeqsUpTo(RootPaths, MaxRoots) \ {<<>>},
     file_type : FileTypes, line_number : {TRUE}, search_method : {"PrescanRegex"}]

(* -------------------------- single-file scans --------------------------- *)
\* the lines the scanned contents are made of
LineShapes ==
    {<<>>, <<"x">>, <<"BAD">>,
     <<" ", "f", "o", ":", "\t">>,
     <<"function", " ", "f", "o">>,
     <<"f", "o", "x">>,
     <<"f", "o", "(", ")", "{">>,
     <<"f", "o", "(">>, <<")", "{">>,
     <<"f">>, <<"o", ":">>,
     <<"@typedef", "f", "o">>}

RECURSIVE JoinLines(_)
JoinLines(lines) ==
    IF lines = <<>> THEN <<>>
    ELSE IF Len(lines) = 1 THEN lines[1]
    ELSE lines[1] \o <<"\n">> \o JoinLines(Tail(lines))

\* an empty last line stands for a content that ends in a newline
Contents == {JoinLines(ls) : ls \in SeqsUpTo(LineShapes, MaxLines)}

\* a file that opens and rewinds, with any content; a file that does not open;
\* a file that opens and does not rewind (a FIFO)
ScanFiles ==
    [path : {<<"a", "js">>}, open_ok : {TRUE}, rewind_ok : {TRUE}, content : Contents]
    \cup [path : {<<"a", "js">>}, open_ok : {FALSE}, rewind_ok : {TRUE},
          content : LineShapes]
    \cup [path : {<<"a", "js">>}, open_ok : {TRUE}, rewind_ok : {FALSE},
          content : LineShapes]

ScanConfigs ==
    [query : {Query}, file_paths : {<<"a.js">>},
     file_type : FileTypes, line_number : BOOLEAN, search_method : {"PrescanRegex"}]

(* ------------------------------- state ---------------------------------- *)
VARIABLES
    config,       \* the Config search is called with
    main,         \* the thread that runs search: where it is
    pool,         \* ThreadPool: sender (is it Some) and each worker's thread (is it Some)
    queue,        \* the jobs sent on the channel and not yet received
    queueLock,    \* Mutex of the receiver: the worker holding it, or 0
    resultsLock,  \* Mutex of the results: the worker holding it, or 0
    worker,       \* each worker thread: where it is, its job, the callback calls to make
    results,      \* the Vec<SearchResult> behind the Arc<Mutex<..>>
    ret,          \* what search returned
    faulty,       \* the paths whose scan job panics
    origin,       \* history: for each element of results, the job that appended it
    done,         \* history: the jobs that ran to their end, in order
    file,         \* the file a single scan is run on
    prescan,      \* the streaming pre-scan of that file: full, buf, off, verdict
    delivered,    \* per search method, the calls search_file made on that file
    args,         \* the Args main parsed, until Config::new takes them
    exit,         \* how the process ended: its status and what it printed
    previous      \* history: the configuration and the return of an earlier call of search

vars == <<config, main, pool, queue, queueLock, resultsLock, worker, results, ret,
          faulty, origin, done, file, prescan, delivered, args, exit,
          previous>>

poolVars == <<main, pool, queue, queueLock, resultsLock, worker, results, ret, faulty, origin, done>>
scanVars == <<file, prescan, delivered>>
cliVars == <<args, exit, previous>>

Workers == DOMAIN worker

NoJob == [n |-> 0, path |-> <<>>]
NoFile == [path |-> <<>>, open_ok |-> FALSE, rewind_ok |-> FALSE, content |-> <<>>]
ScanIdle == [full |-> <<>>, buf |-> <<>>, off |-> 0, verdict |-> "idle"]

\* ThreadPool::new(count) and the first lines of search
ThreadPoolNew(count) ==
    /\ pool = [sender |-> TRUE, thread |-> [w \in 1..count |-> TRUE]]
    /\ worker = [w \in 1..count |-> [pc |-> "lock", job |-> NoJob, calls |-> <<>>]]
    /\ queue = <<>>
    /\ queueLock = 0

SearchStart ==
    /\ main = [pc |-> "walk", root |-> 1, entry |-> 1, submitted |-> 0, join |-> 0, then |-> ""]
    /\ resultsLock = 0
    /\ results = <<>>
    /\ origin = <<>>
    /\ done = <<>>
    /\ ret = [kind |-> "none", value |-> <<>>]

ScanUnused ==
    /\ file = NoFile
    /\ prescan = ScanIdle
    /\ delivered = <<>>

\* search is called with a Config made without Args, and the process runs
NoArgs == [query |-> <<>>, file_path |-> None, file_type |-> None,
          line_number |-> FALSE, search_method |-> None]
Running == [status |-> -1, stdout |-> <<>>]
ConfigMade ==
    /\ args = NoArgs
    /\ exit = Running
    /\ previous = <<>>

\* the worker counts a search is configured with
WorkerCounts == 1..MaxWorkers

Init ==
    /\ config \in Configs
    /\ \E count \in WorkerCounts : ThreadPoolNew(count)
    /\ SearchStart
    /\ faulty = {}
    /\ ScanUnused
    /\ ConfigMade


(* --------------------------- search: the walk --------------------------- *)
Walking == main.pc = "walk" /\ main.root <= Len(config.file_paths)
CurrentEntry == Walk(config.file_paths[main.root])[main.entry]

\* mutant: the loop over the roots ends with the walk of the first root
Advance_FirstRootOnly(m) ==
    IF m.entry < Len(Walk(config.file_paths[m.root]))
    THEN [m EXCEPT !.entry = m.entry + 1]
    ELSE [m EXCEPT !.root = Len(config.file_paths) + 1, !.entry = 1]

\* the next entry of the for loops over the roots and their walks
Advance(m) ==
    IF m.entry < Len(Walk(config.file_paths[m.root]))
    THEN [m EXCEPT !.entry = m.entry + 1]
    ELSE [m EXCEPT !.root = m.root + 1, !.entry = 1]

\* a worker thread that has not ended keeps the receiver of the channel alive
ReceiverAlive == \E w \in Workers : worker[w].pc \notin {"exited", "panicked"}

\* if path.is_dir() { continue; }
WalkSkipDir ==
    /\ Walking
    /\ CurrentEntry.kind = "dir"
    /\ main' = Advance(main)
    /\ UNCHANGED <<config, pool, queue, queueLock, resultsLock, worker, results, ret,
                   faulty, origin, done, scanVars, cliVars>>

\* if !file_type_re.is_match(&path) { continue; }
WalkSkipType ==
    /\ Walking
    /\ CurrentEntry.kind = "file"
    /\ ~path_matches(CurrentEntry.path, config.file_type)
    /\ main' = Advance(main)
    /\ UNCHANGED <<config, pool, queue, queueLock, resultsLock, worker, results, ret,
                   faulty, origin, done, scanVars, cliVars>>

\* mutant: the channel hands out the job sent last first
execute_Front(job) == queue' = <<job>> \o queue

\* ThreadPool::execute: the job is sent on the channel
execute(job) == queue' = Append(queue, job)

\* mutant: a job is submitted for a file of any type
WalkExecute_AnyType ==
    /\ Walking
    /\ CurrentEntry.kind = "file"
    /\ ReceiverAlive
    /\ execute([n |-> main.submitted + 1, path |-> CurrentEntry.path])
    /\ main' = [Advance(main) EXCEPT !.submitted = main.submitted + 1]
    /\ UNCHANGED <<config, pool, queueLock, resultsLock, worker, results, ret,
                   faulty, origin, done, scanVars, cliVars>>

\* pool.execute(move || search_file(..)) for a path of the file type
WalkExecute ==
    /\ Walking
    /\ CurrentEntry.kind = "file"
    /\ path_matches(CurrentEntry.path, config.file_type)
    /\ ReceiverAlive
    /\ execute([n |-> main.submitted + 1, path |-> CurrentEntry.path])
    /\ main' = [Advance(main) EXCEPT !.submitted = main.submitted + 1]
    /\ UNCHANGED <<config, pool, queueLock, resultsLock, worker, results, ret,
                   faulty, origin, done, scanVars, cliVars>>

\* send fails when every worker thread has ended: execute panics
WalkExecuteFails ==
    /\ Walking
    /\ CurrentEntry.kind = "file"
    /\ path_matches(CurrentEntry.path, config.file_type)
    /\ ~ReceiverAlive
    /\ main' = [main EXCEPT !.pc = "panicked"]
    /\ UNCHANGED <<config, pool, queue, queueLock, resultsLock, worker, results, ret,
                   faulty, origin, done, scanVars, cliVars>>

\* mutant: an error of the walker is skipped, as guess_file_type does
WalkError_Skipped ==
    /\ Walking
    /\ CurrentEntry.kind = "err"
    /\ main' = Advance(main)
    /\ UNCHANGED <<config, pool, queue, queueLock, resultsLock, worker, results, ret,
                   faulty, origin, done, scanVars, cliVars>>

\* mutant: the pool is forgotten and not dropped when search returns Err
WalkError_PoolForgotten ==
    /\ Walking
    /\ CurrentEntry.kind = "err"
    /\ main' = [main EXCEPT !.pc = "returned", !.then = "err"]
    /\ ret' = [kind |-> "Err", value |-> <<>>]
    /\ UNCHANGED <<config, pool, queue, queueLock, resultsLock, worker, results,
                   faulty, origin, done, scanVars, cliVars>>

\* entry? on an error of the walker: search returns Err, its locals are dropped
WalkError ==
    /\ Walking
    /\ CurrentEntry.kind = "err"
    /\ main' = [main EXCEPT !.pc = "stop", !.then = "err"]
    /\ UNCHANGED <<config, pool, queue, queueLock, resultsLock, worker, results, ret,
                   faulty, origin, done, scanVars, cliVars>>

\* path.to_str() is None: return Err("Error getting string from path")
WalkNonUtf8 ==
    /\ Walking
    /\ CurrentEntry.kind = "nonutf8"
    /\ main' = [main EXCEPT !.pc = "stop", !.then = "err"]
    /\ UNCHANGED <<config, pool, queue, queueLock, resultsLock, worker, results, ret,
                   faulty, origin, done, scanVars, cliVars>>

\* the loops end: pool.wait_for_all_jobs_and_stop()
WalkEnd ==
    /\ main.pc = "walk"
    /\ main.root > Len(config.file_paths)
    /\ main' = [main EXCEPT !.pc = "stop", !.then = "collect"]
    /\ UNCHANGED <<config, pool, queue, queueLock, resultsLock, worker, results, ret,
                   faulty, origin, done, scanVars, cliVars>>

(* ------------------- ThreadPool::wait_for_all_jobs_and_stop ------------- *)
\* mutant: the jobs still queued are lost when the sender is dropped
StopSender_QueueLost ==
    /\ main.pc = "stop"
    /\ pool' = [pool EXCEPT !.sender = FALSE]
    /\ queue' = <<>>
    /\ main' = [main EXCEPT !.pc = "join", !.join = 1]
    /\ UNCHANGED <<config, queueLock, resultsLock, worker, results, ret,
                   faulty, origin, done, scanVars, cliVars>>

\* mutant: the sender is not dropped, the channel stays open
StopSender_SenderKept ==
    /\ main.pc = "stop"
    /\ main' = [main EXCEPT !.pc = "join", !.join = 1]
    /\ UNCHANGED <<config, pool, queue, queueLock, resultsLock, worker, results, ret,
                   faulty, origin, done, scanVars, cliVars>>

\* drop(self.sender.take())
StopSender ==
    /\ main.pc = "stop"
    /\ pool' = [pool EXCEPT !.sender = FALSE]
    /\ main' = [main EXCEPT !.pc = "join", !.join = 1]
    /\ UNCHANGED <<config, queue, queueLock, resultsLock, worker, results, ret,
                   faulty, origin, done, scanVars, cliVars>>

\* mutant: the thread is detached and not waited for
JoinWorker_Detached ==
    /\ main.pc = "join"
    /\ main.join \in Workers
    /\ pool.thread[main.join]
    /\ pool' = [pool EXCEPT !.thread[main.join] = FALSE]
    /\ main' = [main EXCEPT !.join = main.join + 1]
    /\ UNCHANGED <<config, queue, queueLock, resultsLock, worker, results, ret,
                   faulty, origin, done, scanVars, cliVars>>

\* mutant: the handle of a joined thread is left in the worker
JoinWorker_HandleKept ==
    /\ main.pc = "join"
    /\ main.join \in Workers
    /\ pool.thread[main.join]
    /\ worker[main.join].pc = "exited"
    /\ main' = [main EXCEPT !.join = main.join + 1]
    /\ UNCHANGED <<config, pool, queue, queueLock, resultsLock, worker, results, ret,
                   faulty, origin, done, scanVars, cliVars>>

\* worker.thread.take() is Some and join() returns Ok once the thread has ended
JoinWorker ==
    /\ main.pc = "join"
    /\ main.join \in Workers
    /\ pool.thread[main.join]
    /\ worker[main.join].pc = "exited"
    /\ pool' = [pool EXCEPT !.thread[main.join] = FALSE]
    /\ main' = [main EXCEPT !.join = main.join + 1]
    /\ UNCHANGED <<config, queue, queueLock, resultsLock, worker, results, ret,
                   faulty, origin, done, scanVars, cliVars>>

\* join() returns Err for a thread that panicked: expect panics
JoinPanicked ==
    /\ main.pc = "join"
    /\ main.join \in Workers
    /\ pool.thread[main.join]
    /\ worker[main.join].pc = "panicked"
    /\ pool' = [pool EXCEPT !.thread[main.join] = FALSE]
    /\ main' = [main EXCEPT !.pc = "panicked"]
    /\ UNCHANGED <<config, queue, queueLock, resultsLock, worker, results, ret,
                   faulty, origin, done, scanVars, cliVars>>

\* worker.thread.take() is None: nothing to join
JoinSkip ==
    /\ main.pc = "join"
    /\ main.join \in Workers
    /\ ~pool.thread[main.join]
    /\ main' = [main EXCEPT !.join = main.join + 1]
    /\ UNCHANGED <<config, pool, queue, queueLock, resultsLock, worker, results, ret,
                   faulty, origin, done, scanVars, cliVars>>

\* the loop over the workers ends and wait_for_all_jobs_and_stop returns: to
\* the rest of search, or, when it ran in drop, to the caller of search
JoinEnd ==
    /\ main.pc = "join"
    /\ main.join \notin Workers
    /\ main' = [main EXCEPT !.pc = IF main.then = "collect" THEN "collect" ELSE "returned"]
    /\ ret' = IF main.then = "err" THEN [kind |-> "Err", value |-> <<>>] ELSE ret
    /\ UNCHANGED <<config, pool, queue, queueLock, resultsLock, worker, results,
                   faulty, origin, done, scanVars, cliVars>>

\* a job that is queued or running holds a clone of the Arc of the results
ResultClones ==
    Cardinality({w \in Workers : worker[w].job # NoJob})
    + (IF ReceiverAlive THEN Len(queue) ELSE 0)

\* Arc::into_inner(results).expect(..), Ok(results), and the pool is dropped
Collect ==
    /\ main.pc = "collect"
    /\ IF ResultClones = 0
       THEN /\ ret' = [kind |-> "Ok", value |-> results]
            /\ main' = [main EXCEPT !.pc = "stop", !.then = "ok"]
       ELSE /\ ret' = ret
            /\ main' = [main EXCEPT !.pc = "panicked"]
    /\ UNCHANGED <<config, pool, queue, queueLock, resultsLock, worker, results,
                   faulty, origin, done, scanVars, cliVars>>

(* ------------------------------- main.rs -------------------------------- *)
\* exitcode::USAGE
USAGE == 64

\* SearchResult::to_grep: path:line:text, or path:text without a line number
to_grep(result) ==
    IF result.line_number # None
    THEN <<result.file_path, ":", result.line_number[1], ":", result.text>>
    ELSE <<result.file_path, ":", result.text>>

\* mutant: no result is an error, as it is for grep
MainExit_NothingFound ==
    /\ main.pc = "returned"
    /\ main' = [main EXCEPT !.pc = "exited"]
    /\ exit' = IF ret.kind = "Ok" /\ ret.value # <<>>
               THEN [status |-> 0, stdout |-> [i \in 1..Len(ret.value) |-> to_grep(ret.value[i])]]
               ELSE [status |-> USAGE, stdout |-> <<>>]
    /\ UNCHANGED <<config, pool, queue, queueLock, resultsLock, worker, results, ret,
                   faulty, origin, done, scanVars, args, previous>>

\* match search(&config): the results are printed and main ends, or the
\* error goes to stderr and the process exits with USAGE
MainExit ==
    /\ main.pc = "returned"
    /\ main' = [main EXCEPT !.pc = "exited"]
    /\ exit' = IF ret.kind = "Ok"
               THEN [status |-> 0, stdout |-> [i \in 1..Len(ret.value) |-> to_grep(ret.value[i])]]
               ELSE [status |-> USAGE, stdout |-> <<>>]
    /\ UNCHANGED <<config, pool, queue, queueLock, resultsLock, worker, results, ret,
                   faulty, origin, done, scanVars, args, previous>>

(* ------------------------------ Worker::new ----------------------------- *)
\* receiver.lock()
WorkerLock(w) ==
    /\ worker[w].pc = "lock"
    /\ queueLock = 0
    /\ queueLock' = w
    /\ worker' = [worker EXCEPT ![w].pc = "recv"]
    /\ UNCHANGED <<config, main, pool, queue, resultsLock, results, ret,
                   faulty, origin, done, scanVars, cliVars>>

\* mutant: recv() returns the job sent last
WorkerRecvJob_Newest(w) ==
    /\ worker[w].pc = "recv"
    /\ queue # <<>>
    /\ queue' = SubSeq(queue, 1, Len(queue) - 1)
    /\ queueLock' = 0
    /\ worker' = [worker EXCEPT ![w].pc = "job", ![w].job = queue[Len(queue)]]
    /\ UNCHANGED <<config, main, pool, resultsLock, results, ret,
                   faulty, origin, done, scanVars, cliVars>>

\* mutant: recv() hands the job out and leaves it on the channel
WorkerRecvJob_Peek(w) ==
    /\ worker[w].pc = "recv"
    /\ queue # <<>>
    /\ queueLock' = 0
    /\ worker' = [worker EXCEPT ![w].pc = "job", ![w].job = Head(queue)]
    /\ UNCHANGED <<config, main, pool, queue, resultsLock, results, ret,
                   faulty, origin, done, scanVars, cliVars>>

\* mutant: the guard of the receiver lives as long as the job runs
WorkerRecvJob_LockKept(w) ==
    /\ worker[w].pc = "recv"
    /\ queue # <<>>
    /\ queue' = Tail(queue)
    /\ worker' = [worker EXCEPT ![w].pc = "job", ![w].job = Head(queue)]
    /\ UNCHANGED <<config, main, pool, queueLock, resultsLock, results, ret,
                   faulty, origin, done, scanVars, cliVars>>

\* recv() returns Ok(job); the guard of the lock is dropped with the statement
WorkerRecvJob(w) ==
    /\ worker[w].pc = "recv"
    /\ queue # <<>>
    /\ queue' = Tail(queue)
    /\ queueLock' = 0
    /\ worker' = [worker EXCEPT ![w].pc = "job", ![w].job = Head(queue)]
    /\ UNCHANGED <<config, main, pool, resultsLock, results, ret,
                   faulty, origin, done, scanVars, cliVars>>

\* mutant: recv() returns Err once the sender is dropped, jobs queued or not
WorkerRecvErr_Disconnected(w) ==
    /\ worker[w].pc = "recv"
    /\ ~pool.sender
    /\ queueLock' = 0
    /\ worker' = [worker EXCEPT ![w].pc = "exited"]
    /\ UNCHANGED <<config, main, pool, queue, resultsLock, results, ret,
                   faulty, origin, done, scanVars, cliVars>>

\* recv() returns Err: the channel is empty and its sender dropped; break
WorkerRecvErr(w) ==
    /\ worker[w].pc = "recv"
    /\ queue = <<>>
    /\ ~pool.sender
    /\ queueLock' = 0
    /\ worker' = [worker EXCEPT ![w].pc = "exited"]
    /\ UNCHANGED <<config, main, pool, queue, resultsLock, results, ret,
                   faulty, origin, done, scanVars, cliVars>>

\* job(): search_file reads the file and works out what to call back with
WorkerRunJob(w) ==
    /\ worker[w].pc = "job"
    /\ worker[w].job.path \notin faulty
    /\ LET calls == search_file(FileAt(worker[w].job.path), config)
       IN IF calls = <<>>
          THEN /\ worker' = [worker EXCEPT ![w].pc = "lock", ![w].job = NoJob]
               /\ done' = Append(done, worker[w].job.n)
          ELSE /\ worker' = [worker EXCEPT ![w].pc = "callback", ![w].calls = calls]
               /\ done' = done
    /\ UNCHANGED <<config, main, pool, queue, queueLock, resultsLock, results, ret,
                   faulty, origin, scanVars, cliVars>>

\* job() panics: the thread unwinds and ends
WorkerJobPanics(w) ==
    /\ worker[w].pc = "job"
    /\ worker[w].job.path \in faulty
    /\ worker' = [worker EXCEPT ![w].pc = "panicked", ![w].job = NoJob]
    /\ UNCHANGED <<config, main, pool, queue, queueLock, resultsLock, results, ret,
                   faulty, origin, done, scanVars, cliVars>>

\* the callback: results1.lock()
WorkerCallbackLock(w) ==
    /\ worker[w].pc = "callback"
    /\ resultsLock = 0
    /\ resultsLock' = w
    /\ worker' = [worker EXCEPT ![w].pc = "extend"]
    /\ UNCHANGED <<config, main, pool, queue, queueLock, results, ret,
                   faulty, origin, done, scanVars, cliVars>>

\* mutant: the results of the call replace what the vector held
extend_Overwrite(vec, file_results) == file_results

\* Vec::extend
extend(vec, file_results) == vec \o file_results

\* history: the job behind each result of one call
Origins(job, file_results) == [k \in 1..Len(file_results) |-> job.n]

\* mutant: the results are pushed one by one, the lock taken for each
WorkerExtend_OneByOne(w) ==
    /\ worker[w].pc = "extend"
    /\ LET file_results == Head(worker[w].calls)
           first == SubSeq(file_results, 1, IF file_results = <<>> THEN 0 ELSE 1)
           rest == SubSeq(file_results, 2, Len(file_results))
       IN /\ results' = extend(results, first)
          /\ origin' = origin \o Origins(worker[w].job, first)
          /\ resultsLock' = 0
          /\ IF rest = <<>>
             THEN /\ worker' = [worker EXCEPT ![w].pc = "lock", ![w].job = NoJob,
                                              ![w].calls = <<>>]
                  /\ done' = Append(done, worker[w].job.n)
             ELSE /\ worker' = [worker EXCEPT ![w].pc = "callback", ![w].calls = <<rest>>]
                  /\ done' = done
    /\ UNCHANGED <<config, main, pool, queue, queueLock, ret, faulty, scanVars, cliVars>>

\* .extend(file_results); the guard is dropped, and the job ends after the
\* last call
WorkerExtend(w) ==
    /\ worker[w].pc = "extend"
    /\ results' = extend(results, Head(worker[w].calls))
    /\ origin' = origin \o Origins(worker[w].job, Head(worker[w].calls))
    /\ resultsLock' = 0
    /\ IF Tail(worker[w].calls) = <<>>
       THEN /\ worker' = [worker EXCEPT ![w].pc = "lock", ![w].job = NoJob, ![w].calls = <<>>]
            /\ done' = Append(done, worker[w].job.n)
       ELSE /\ worker' = [worker EXCEPT ![w].pc = "callback", ![w].calls = Tail(worker[w].calls)]
            /\ done' = done
    /\ UNCHANGED <<config, main, pool, queue, queueLock, ret, faulty, scanVars, cliVars>>

Next ==
    \/ WalkSkipDir \/ WalkSkipType \/ WalkExecute \/ WalkError \/ WalkNonUtf8 \/ WalkEnd
    \/ StopSender \/ JoinWorker \/ JoinSkip \/ JoinEnd \/ Collect \/ MainExit
    \/ \E w \in Workers : WorkerLock(w)
    \/ \E w \in Workers : WorkerRecvJob(w)
    \/ \E w \in Workers : WorkerRecvErr(w)
    \/ \E w \in Workers : WorkerRunJob(w)
    \/ \E w \in Workers : WorkerCallbackLock(w)
    \/ \E w \in Workers : WorkerExtend(w)

\* search on the tree, with no job that panics
Spec == Init /\ [][Next]_vars

\* a query no line of the tree defines, though its letter occurs in the files
NoMatchQuery == <<"o">>
\* the roots whose files open and rewind, and the two whose walk fails
NoMatchRoots == {"src", "lib", "locked", "odd"}
NoMatchConfigs ==
    [query : {NoMatchQuery}, file_paths : SeqsUpTo(NoMatchRoots, MaxRoots) \ {<<>>},
     file_type : FileTypes, line_number : {TRUE}, search_method : SearchMethods]

InitNoMatch ==
    /\ config \in NoMatchConfigs
    /\ \E count \in WorkerCounts : ThreadPoolNew(count)
    /\ SearchStart
    /\ faulty = {}
    /\ ScanUnused
    /\ ConfigMade

\* search for that query, under each search method
SpecNoMatch == InitNoMatch /\ [][Next]_vars

\* the searches that are run twice
RerunRoots == {"src", "lib", "locked", "odd"}
RerunConfigs ==
    [query : {Query}, file_paths : SeqsUpTo(RerunRoots, MaxRoots) \ {<<>>},
     file_type : {"JS"}, line_number : {TRUE}, search_method : {"PrescanRegex"}]

\* search has returned and its caller calls it again with the same Config:
\* a new pool of as many workers, a new vector of results
SearchAgain ==
    /\ main.pc = "returned"
    /\ previous = <<>>
    /\ previous' = <<[config |-> config, ret |-> ret]>>
    /\ main' = [pc |-> "walk", root |-> 1, entry |-> 1, submitted |-> 0, join |-> 0, then |-> ""]
    /\ pool' = [sender |-> TRUE, thread |-> [w \in Workers |-> TRUE]]
    /\ worker' = [w \in Workers |-> [pc |-> "lock", job |-> NoJob, calls |-> <<>>]]
    /\ queue' = <<>>
    /\ queueLock' = 0
    /\ resultsLock' = 0
    /\ results' = <<>>
    /\ origin' = <<>>
    /\ done' = <<>>
    /\ ret' = [kind |-> "none", value |-> <<>>]
    /\ UNCHANGED <<config, faulty, scanVars, args, exit>>

InitRerun ==
    /\ config \in RerunConfigs
    /\ \E count \in WorkerCounts : ThreadPoolNew(count)
    /\ SearchStart
    /\ faulty = {}
    /\ ScanUnused
    /\ ConfigMade

NextRerun == Next \/ SearchAgain

\* search called twice with one Config on the tree
SpecRerun == InitRerun /\ [][NextRerun]_vars

(* ------------------------------ Config::new ----------------------------- *)
\* mutant: a string that names no file type is taken for JS
from_string_DefaultJS(file_type_string) ==
    IF file_type_string = "php" THEN [kind |-> "Ok", value |-> "PHP"]
    ELSE [kind |-> "Ok", value |-> "JS"]

\* FileType::from_string
from_string(file_type_string) ==
    IF file_type_string \in {"js", "ts", "jsx", "tsx", "javascript", "javascript.jsx",
                             "javascriptreact", "typescript", "typescript.tsx",
                             "typescriptreact"}
    THEN [kind |-> "Ok", value |-> "JS"]
    ELSE IF file_type_string = "php" THEN [kind |-> "Ok", value |-> "PHP"]
    ELSE [kind |-> "Err", value |-> "Invalid file type"]

\* the type of the first file of the walk with a JS or a PHP extension; an
\* error of the walker is skipped, a name that is not UTF-8 matches nothing
RECURSIVE FirstGuess(_)
FirstGuess(entries) ==
    IF entries = <<>> THEN None
    ELSE IF Head(entries).kind = "file" /\ path_matches(Head(entries).path, "JS") THEN Some("JS")
    ELSE IF Head(entries).kind = "file" /\ path_matches(Head(entries).path, "PHP") THEN Some("PHP")
    ELSE FirstGuess(Tail(entries))

guess_file_type_from_file_path(file_path) == FirstGuess(Walk(file_path))

RECURSIVE guess_file_type(_)
guess_file_type(file_paths) ==
    IF file_paths = <<>>
    THEN [kind |-> "Err", value |-> "Unable to guess file type. Try using --type."]
    ELSE IF guess_file_type_from_file_path(Head(file_paths)) # None
    THEN [kind |-> "Ok", value |-> guess_file_type_from_file_path(Head(file_paths))[1]]
    ELSE guess_file_type(Tail(file_paths))

\* Config::new
ConfigNew(a) ==
    LET file_paths == IF a.file_path # None THEN a.file_path[1] ELSE <<".">>
        file_type == IF a.file_type # None THEN from_string(a.file_type[1])
                     ELSE guess_file_type(file_paths)
    IN IF file_type.kind = "Err" THEN file_type
       ELSE [kind |-> "Ok",
             value |-> [query |-> a.query, file_paths |-> file_paths,
                        file_type |-> file_type.value, line_number |-> a.line_number,
                        search_method |-> IF a.search_method # None
                                          THEN a.search_method[1] ELSE "PrescanRegex"]]

\* the command lines main is started with
MainRoots == {"src", "tmp", "locked", "odd"}
TypeStrings == {"js", "typescript.tsx", "php", "rs"}
\* a query that is no identifier: its pattern has a group that is not closed
BadQuery == <<"f", "o", "(">>
ArgsSet ==
    [query : {Query, BadQuery},
     file_path : {None} \cup {Some(p) : p \in SeqsUpTo(MainRoots, MaxRoots) \ {<<>>}},
     file_type : {None} \cup {Some(t) : t \in TypeStrings},
     line_number : {TRUE}, search_method : {None}]

NoConfig == [query |-> <<>>, file_paths |-> <<>>, file_type |-> "",
             line_number |-> FALSE, search_method |-> ""]

\* main starts: Args::parse() has returned, nothing else exists yet
InitMain ==
    /\ args \in ArgsSet
    /\ config = NoConfig
    /\ main = [pc |-> "config", root |-> 0, entry |-> 0, submitted |-> 0, join |-> 0, then |-> ""]
    /\ pool = [sender |-> FALSE, thread |-> <<>>]
    /\ worker = <<>>
    /\ queue = <<>>
    /\ queueLock = 0
    /\ resultsLock = 0
    /\ results = <<>>
    /\ origin = <<>>
    /\ done = <<>>
    /\ ret = [kind |-> "none", value |-> <<>>]
    /\ faulty = {}
    /\ ScanUnused
    /\ exit = Running
    /\ previous = <<>>

\* Config::new returns Err: eprintln and process::exit(exitcode::USAGE)
MainConfigErr ==
    /\ main.pc = "config"
    /\ ConfigNew(args).kind = "Err"
    /\ main' = [main EXCEPT !.pc = "exited"]
    /\ exit' = [status |-> USAGE, stdout |-> <<>>]
    /\ UNCHANGED <<config, pool, queue, queueLock, resultsLock, worker, results, ret,
                   faulty, origin, done, scanVars, args, previous>>

\* mutant: the query is escaped before it is put in the pattern
QueryCompiles_Escaped(query) == TRUE

\* Regex::new on the pattern of a query is Ok: the query is put in the
\* pattern as it is, so its parentheses have to be balanced
QueryCompiles(query) ==
    /\ \A k \in 1..Len(query) :
          Cardinality({i \in 1..k : query[i] = "("}) >= Cardinality({i \in 1..k : query[i] = ")"})
    /\ Cardinality({i \in 1..Len(query) : query[i] = "("})
          = Cardinality({i \in 1..Len(query) : query[i] = ")"})

\* Config::new returns Ok and main calls search, where Regex::new returns
\* Err and expect panics
MainSearchPanics ==
    /\ main.pc = "config"
    /\ ConfigNew(args).kind = "Ok"
    /\ ~QueryCompiles(ConfigNew(args).value.query)
    /\ config' = ConfigNew(args).value
    /\ main' = [main EXCEPT !.pc = "panicked"]
    /\ UNCHANGED <<pool, queue, queueLock, resultsLock, worker, results, ret,
                   faulty, origin, done, scanVars, cliVars>>

\* Config::new returns Ok and main calls search, which makes its pool
MainConfigOk ==
    /\ main.pc = "config"
    /\ ConfigNew(args).kind = "Ok"
    /\ QueryCompiles(ConfigNew(args).value.query)
    /\ config' = ConfigNew(args).value
    /\ main' = [pc |-> "walk", root |-> 1, entry |-> 1, submitted |-> 0, join |-> 0, then |-> ""]
    /\ \E count \in WorkerCounts :
          /\ pool' = [sender |-> TRUE, thread |-> [w \in 1..count |-> TRUE]]
          /\ worker' = [w \in 1..count |-> [pc |-> "lock", job |-> NoJob, calls |-> <<>>]]
    /\ UNCHANGED <<queue, queueLock, resultsLock, results, ret,
                   faulty, origin, done, scanVars, cliVars>>

NextMain == MainConfigErr \/ MainSearchPanics \/ MainConfigOk \/ Next

\* the program, from its command line to its exit
SpecMain == InitMain /\ [][NextMain]_vars

\* the searches whose end is checked
LiveRoots == {"src", "locked", "odd"}
LiveConfigs ==
    [query : {Query}, file_paths : SeqsUpTo(LiveRoots, MaxRoots) \ {<<>>},
     file_type : {"JS"}, line_number : {TRUE}, search_method : {"PrescanRegex"}]

InitLive ==
    /\ config \in LiveConfigs
    /\ \E count \in WorkerCounts : ThreadPoolNew(count)
    /\ SearchStart
    /\ faulty = {}
    /\ ScanUnused
    /\ ConfigMade

\* search on the tree when the scheduler runs a thread as long as one can
\* run: a scan ends, a free Mutex is taken, a thread that has ended is joined
SpecLive == InitLive /\ [][Next]_vars /\ WF_vars(Next)

\* mutant: execute makes a new channel when the sender has been taken
ExecuteAfterWait_Sends ==
    /\ main.pc = "collect"
    /\ queue' = Append(queue, [n |-> main.submitted + 1, path |-> <<"src/a", "js">>])
    /\ main' = [main EXCEPT !.then = "execute", !.submitted = main.submitted + 1]
    /\ UNCHANGED <<config, pool, queueLock, resultsLock, worker, results, ret,
                   faulty, origin, done, scanVars, cliVars>>

\* pool.execute(job) called once more when wait_for_all_jobs_and_stop has
\* returned: sender.as_ref() is None and expect panics; with a sender the job
\* is sent, and the send panics when no receiver is left
ExecuteAfterWait ==
    /\ main.pc = "collect"
    /\ IF pool.sender /\ ReceiverAlive
       THEN /\ execute([n |-> main.submitted + 1, path |-> <<"src/a", "js">>])
            /\ main' = [main EXCEPT !.then = "execute", !.submitted = main.submitted + 1]
       ELSE /\ queue' = queue
            /\ main' = [main EXCEPT !.pc = "panicked", !.then = "execute"]
    /\ UNCHANGED <<config, pool, queueLock, resultsLock, worker, results, ret,
                   faulty, origin, done, scanVars, cliVars>>

NextPool == Next \/ ExecuteAfterWait

\* the pool with a caller that submits a job after it has stopped the pool
SpecPool == InitLive /\ [][NextPool]_vars

\* the scan of one of the files panics
InitPanic ==
    /\ config \in Configs
    /\ \E count \in WorkerCounts : ThreadPoolNew(count)
    /\ SearchStart
    /\ \E f \in Tree : faulty = {f.path}
    /\ ScanUnused
    /\ ConfigMade

NextPanic ==
    \/ Next
    \/ WalkExecuteFails
    \/ JoinPanicked
    \/ \E w \in Workers : WorkerJobPanics(w)

\* search on the tree, with a job that panics
SpecPanic == InitPanic /\ [][NextPanic]_vars


(* ----------------------- search_file on one file ------------------------ *)
PoolUnused ==
    /\ main = [pc |-> "scan", root |-> 0, entry |-> 0, submitted |-> 0, join |-> 0, then |-> ""]
    /\ pool = [sender |-> FALSE, thread |-> <<>>]
    /\ worker = <<>>
    /\ queue = <<>>
    /\ queueLock = 0
    /\ resultsLock = 0
    /\ results = <<>>
    /\ origin = <<>>
    /\ done = <<>>
    /\ ret = [kind |-> "none", value |-> <<>>]
    /\ faulty = {}

InitScan ==
    /\ config \in ScanConfigs
    /\ file \in ScanFiles
    /\ prescan = ScanIdle
    /\ delivered = [m \in {} |-> <<>>]
    /\ PoolUnused
    /\ ConfigMade

\* search_file with config.search_method = method: the calls of its callback
ScanWith(method) ==
    /\ main.pc = "scan"
    /\ method \notin DOMAIN delivered
    /\ delivered' = [m \in DOMAIN delivered \cup {method} |->
                       IF m = method
                       THEN search_file(file, [config EXCEPT !.search_method = method])
                       ELSE delivered[m]]
    /\ UNCHANGED <<config, poolVars, file, prescan, cliVars>>

NextScan == \E method \in SearchMethods : ScanWith(method)

\* search_file under each search method on one file
SpecScan == InitScan /\ [][NextScan]_vars


(* ------------- does_file_match_query, one read after another ------------ *)
PrescanConfigs ==
    [query : {Query}, file_paths : {<<"a.js">>},
     file_type : {"JS"}, line_number : {FALSE}, search_method : {"PrescanMemmem"}]

\* the pre-scan starts on a file that has opened, with nothing read
InitPrescan ==
    /\ config \in PrescanConfigs
    /\ file \in {f \in ScanFiles : f.open_ok /\ f.rewind_ok}
    /\ prescan = [full |-> PrescanStart.full, buf |-> PrescanStart.buf, off |-> 0,
                  verdict |-> "reading", read |-> 0]
    /\ delivered = <<>>
    /\ PoolUnused
    /\ ConfigMade

\* file.read(&mut buf) returns Ok(n) with 0 < n <= buf.len(): any n up to
\* what is left of the file; the tail is cut at its last newline, buf is
\* appended, and the finder runs
PrescanReadSome ==
    /\ prescan.verdict = "reading"
    /\ prescan.off < Len(file.content)
    /\ \E n \in 1..BufSize :
          /\ prescan.off + n <= Len(file.content)
          /\ LET next == PrescanRead(prescan, file.content, n)
             IN prescan' = [full |-> next.full, buf |-> next.buf, off |-> next.off,
                            verdict |-> IF Find(next.full, config.query)
                                        THEN "true" ELSE "reading",
                            read |-> n]
    /\ UNCHANGED <<config, poolVars, file, delivered, cliVars>>

\* file.read(&mut buf) returns Ok(0) at the end of the file: break false
PrescanReadEnd ==
    /\ prescan.verdict = "reading"
    /\ prescan.off = Len(file.content)
    /\ prescan' = [prescan EXCEPT !.verdict = "false", !.read = 0]
    /\ UNCHANGED <<config, poolVars, file, delivered, cliVars>>

NextPrescan == PrescanReadSome \/ PrescanReadEnd

\* the streaming literal pre-scan of one file, under every placement of the
\* boundaries between its reads
SpecPrescan == InitPrescan /\ [][NextPrescan]_vars


(* ============================== the claims ============================== *)
Range(seq) == {seq[i] : i \in 1..Len(seq)}
Count(x, seq) == Cardinality({i \in 1..Len(seq) : seq[i] = x})
\* the same elements with the same multiplicities
SameElements(a, b) == \A x \in Range(a) \cup Range(b) : Count(x, a) = Count(x, b)

RECURSIVE Flatten(_)
Flatten(seqs) == IF seqs = <<>> THEN <<>> ELSE Head(seqs) \o Flatten(Tail(seqs))

\* every entry the walks of the roots yield, in order
AllEntries == Flatten([r \in 1..Len(config.file_paths) |-> Walk(config.file_paths[r])])
\* no walk fails
WalkClean == \A i \in 1..Len(AllEntries) : AllEntries[i].kind \in {"dir", "file"}
\* the paths of the files of the configured type, in discovery order
Candidates ==
    LET files == SelectSeq(AllEntries, LAMBDA e : e.kind = "file")
        own == SelectSeq(files, LAMBDA e : e.path[Len(e.path)] \in
                   (IF config.file_type = "JS"
                    THEN {"js", "jsx", "ts", "tsx", "mjs", "cjs"} ELSE {"php"}))
    IN [i \in 1..Len(own) |-> own[i].path]
\* wait_for_all_jobs_and_stop has returned from the call search makes
WaitReturned ==
    \/ main.pc \in {"collect", "returned", "exited"}
    \/ main.pc \in {"stop", "join"} /\ main.then = "ok"

\* C1: when wait_for_all_jobs_and_stop returns, every job submitted has run to
\* its end, none is queued or held by a worker, and every worker has exited
C1_AllJobsRanAndWorkersExited ==
    WaitReturned =>
        /\ queue = <<>>
        /\ \A w \in Workers : worker[w].pc = "exited" /\ worker[w].job = NoJob
        /\ Range(done) = 1..main.submitted
        /\ Len(done) = main.submitted

C1_Witness ==
    /\ main.pc = "collect"
    /\ main.submitted >= 2
    /\ Cardinality(Workers) >= 2
    /\ Len(done) = main.submitted

\* what one worker alone returns: the results of the candidates, file after
\* file in discovery order
SequentialResults ==
    Flatten([i \in 1..Len(Candidates) |-> Flatten(search_file(FileAt(Candidates[i]), config))])

\* C2: whatever the number of workers and their interleaving, search returns
\* the elements a single worker returns, with the same multiplicities
C2_SameResultsForAnyWorkerCount ==
    ret.kind = "Ok" => SameElements(ret.value, SequentialResults)

\* two workers returned the results in another order than one worker does
C2_Witness ==
    /\ ret.kind = "Ok"
    /\ Cardinality(Workers) >= 2
    /\ Len(ret.value) >= 2
    /\ ret.value # SequentialResults

\* C3: search_file calls back with the same results under PrescanRegex,
\* PrescanMemmem and NoPrescan
C3_SameResultsUnderEveryMethod ==
    DOMAIN delivered = SearchMethods =>
        /\ delivered["PrescanRegex"] = delivered["NoPrescan"]
        /\ delivered["PrescanMemmem"] = delivered["NoPrescan"]

\* C4: a job that panics stops neither its worker nor search: every other job
\* runs, and wait_for_all_jobs_and_stop and search return
C4_PanicIsCaught ==
    /\ main.pc # "panicked"
    /\ \A w \in Workers : worker[w].pc # "panicked"

\* the results returned for one path
ReturnedFor(path) == SelectSeq(ret.value, LAMBDA r : r.file_path = path)
\* how many times the walks discover a path
Discoveries(path) == Count(path, Candidates)
Healthy(f) == f.open_ok /\ f.rewind_ok
\* the results of one scan of a file alone
ScanAlone(f) == Flatten(search_file(f, config))

\* C5: a file that does not open or does not rewind contributes no result,
\* search still returns Ok, and every other candidate file contributes all the
\* results of its scan, once per discovery
C5_FileFailureIsLocal ==
    main.pc = "returned" /\ WalkClean =>
        /\ ret.kind = "Ok"
        /\ \A f \in Tree :
              IF Healthy(f)
              THEN SameElements(ReturnedFor(f.path),
                                Flatten([i \in 1..Discoveries(f.path) |-> ScanAlone(f)]))
              ELSE ReturnedFor(f.path) = <<>>

\* search returned results though one of the files it scanned did not rewind
C5_Witness ==
    /\ ret.kind = "Ok"
    /\ ret.value # <<>>
    /\ \E i \in 1..Len(Candidates) : ~FileAt(Candidates[i]).rewind_ok

MatchPositions ==
    LET lines == Lines(file.content)
    IN {i \in 1..Len(lines) :
           /\ \A c \in 1..Len(lines[i]) : lines[i][c] # "BAD"
           /\ is_match(lines[i], config.query, config.file_type)}
\* the position of the k-th of them
KthMatch(k) ==
    CHOOSE i \in MatchPositions : Cardinality({j \in MatchPositions : j <= i}) = k
\* text is line without the whitespace at its two ends
IsTrimOf(text, line) ==
    /\ text # <<>> => ~IsSpace(text[1]) /\ ~IsSpace(text[Len(text)])
    /\ \E a \in 0..Len(line) :
          /\ a + Len(text) <= Len(line)
          /\ SubSeq(line, a + 1, a + Len(text)) = text
          /\ \A c \in (1..a) \cup ((a + Len(text) + 1)..Len(line)) : IsSpace(line[c])
\* the line-by-line scan of a file that opens and rewinds has been made
LineScanDone == "NoPrescan" \in DOMAIN delivered /\ Healthy(file)
LineScan == delivered["NoPrescan"][1]
\* one result per matching line and none for the others, in the order of the
\* lines, each with the path of the file and the trimmed line
OneResultPerMatchingLine ==
    /\ Len(LineScan) = Cardinality(MatchPositions)
    /\ \A k \in 1..Len(LineScan) :
          /\ LineScan[k].file_path = file.path
          /\ IsTrimOf(LineScan[k].text, Lines(file.content)[KthMatch(k)])

\* C7 as stated: every matching line yields exactly one result with the
\* trimmed line and the 1-based position of the line as line_number, and the
\* other lines yield none
C7_EveryResultHasItsPosition ==
    LineScanDone =>
        /\ OneResultPerMatchingLine
        /\ \A k \in 1..Len(LineScan) : LineScan[k].line_number = Some(KthMatch(k))

\* C7: every matching line yields exactly one result with the trimmed line,
\* and the other lines yield none; line_number is the 1-based position of the
\* line among all the lines when config.line_number is set, and None when not
C7_PositionWhenRequested ==
    LineScanDone =>
        /\ OneResultPerMatchingLine
        /\ \A k \in 1..Len(LineScan) :
              LineScan[k].line_number =
                  IF config.line_number THEN Some(KthMatch(k)) ELSE None

\* a line that matches after one that does not, with whitespace to trim
C7_Witness ==
    /\ LineScanDone
    /\ config.line_number
    /\ \E k \in 1..Len(LineScan) :
          /\ LineScan[k].line_number = Some(2)
          /\ 1 \notin MatchPositions
          /\ LineScan[k].text # Lines(file.content)[2]

\* the line position of the i-th result search returned
LineOf(i) == ret.value[i].line_number[1]
\* search returned Ok with the vector the jobs appended to
ReturnedAll == ret.kind = "Ok" /\ ret.value = results /\ Len(origin) = Len(results)

\* C8 as stated: the results search returns for any one file are in ascending
\* order of line position
C8_AscendingPerFile ==
    ret.kind = "Ok" =>
        \A i, j \in 1..Len(ret.value) :
            i < j /\ ret.value[i].file_path = ret.value[j].file_path
                => LineOf(i) < LineOf(j)

\* C8: the results of any one scan of a file are next to each other in what
\* search returns, in ascending order of line position; a file discovered
\* twice is scanned twice and has its lines twice
C8_AscendingPerScan ==
    ret.kind = "Ok" =>
        /\ ReturnedAll
        /\ \A i, j \in 1..Len(ret.value) :
              i < j /\ origin[i] = origin[j] =>
                  /\ ret.value[i].file_path = ret.value[j].file_path
                  /\ LineOf(i) < LineOf(j)
                  /\ \A k \in i..j : origin[k] = origin[i]

\* two workers returned two lines of one scan after the line of a file
\* discovered later
C8_Witness ==
    /\ ReturnedAll
    /\ Cardinality(Workers) >= 2
    /\ \E i, j \in 1..Len(ret.value) :
          /\ i < j
          /\ origin[i] = origin[j]
          /\ \E k \in 1..(i - 1) : origin[k] > origin[i]

\* when the job of the i-th result ran to its end
FinishedAt(i) == CHOOSE d \in 1..Len(done) : done[d] = origin[i]

\* C9 as stated: the results of a file submitted before another all precede
\* the results of the other
C9_DiscoveryOrder ==
    ret.kind = "Ok" =>
        \A i, j \in 1..Len(ret.value) : origin[i] < origin[j] => i < j

\* C9: what search returns is ordered by the end of the scans, a scan that
\* ended before another has all its results before those of the other; with
\* one worker that is the order of discovery
C9_CompletionOrder ==
    ret.kind = "Ok" =>
        /\ ReturnedAll
        /\ \A i \in 1..Len(origin) : origin[i] \in Range(done)
        /\ \A i, j \in 1..Len(ret.value) : FinishedAt(i) < FinishedAt(j) => i < j
        /\ Cardinality(Workers) = 1 =>
              /\ \A d \in 1..Len(done) : done[d] = d
              /\ \A i, j \in 1..Len(ret.value) : origin[i] < origin[j] => i < j

\* one worker returned the results of two files
C9_Witness ==
    /\ ReturnedAll
    /\ Cardinality(Workers) = 1
    /\ \E i, j \in 1..Len(ret.value) : origin[i] < origin[j]

\* the extensions of the configured file type
OwnExtensions ==
    IF config.file_type = "PHP" THEN {"php"} ELSE {"js", "jsx", "ts", "tsx", "mjs", "cjs"}
HasOwnExtension(path) == Len(path) >= 2 /\ path[Len(path)] \in OwnExtensions

\* C10: every job submitted, and every result collected or returned, is for a
\* path with an extension of the configured file type, root path or not
C10_OnlyFilesOfTheType ==
    /\ \A i \in 1..Len(queue) : HasOwnExtension(queue[i].path)
    /\ \A w \in Workers : worker[w].job # NoJob => HasOwnExtension(worker[w].job.path)
    /\ \A i \in 1..Len(results) : HasOwnExtension(results[i].file_path)
    /\ \A i \in 1..Len(ret.value) : HasOwnExtension(ret.value[i].file_path)
    /\ main.submitted <= Len(Candidates)

\* a search for JS definitions returned results, with the PHP file that has
\* lines matching the JS pattern given as a root
C10_Witness ==
    /\ ret.kind = "Ok"
    /\ ret.value # <<>>
    /\ config.file_type = "JS"
    /\ \E r \in 1..Len(config.file_paths) : config.file_paths[r] = "src/b.php"
    /\ search_file_line_by_line(<<"src/b", "php">>, FileAt(<<"src/b", "php">>).content,
                                config) # <<>>

\* no line of a candidate file matches the pattern of the query
NoLineMatches ==
    \A c \in 1..Len(Candidates) :
        LET lines == Lines(FileAt(Candidates[c]).content)
        IN \A i \in 1..Len(lines) : ~is_match(lines[i], config.query, config.file_type)

\* C11: when no line of a candidate file matches and no walk fails, nothing
\* is collected, search returns Ok with an empty vector, and the process ends
\* with status 0 and prints nothing, whatever the search method and the
\* number of workers
C11_NoMatchIsOkAndEmpty ==
    \/ /\ results = <<>>
       /\ ret.kind \in {"none", "Ok"} /\ ret.value = <<>>
       /\ main.pc # "panicked"
       /\ main.pc = "returned" => ret.kind = "Ok"
       /\ main.pc = "exited" => exit = [status |-> 0, stdout |-> <<>>]
       /\ main.pc # "exited" => exit = Running
    \/ ~WalkClean
    \/ ~NoLineMatches

\* two workers scanned two files that hold the letters of the query, found no
\* definition, and the process ended
C11_Witness ==
    /\ NoLineMatches /\ WalkClean
    /\ main.pc = "exited"
    /\ Cardinality(Workers) >= 2
    /\ config.search_method = "PrescanMemmem"
    /\ Len(done) >= 2
    /\ \E c \in 1..Len(Candidates) :
          ~PrescanSkips(FileAt(Candidates[c]), config) /\ Healthy(FileAt(Candidates[c]))

\* where the query occurs in a line
Occurrences(line, query) ==
    {p \in 1..(Len(line) - Len(query) + 1) :
        \A i \in 1..Len(query) : line[p + i - 1] = query[i]}
\* the occurrence at p is a proper part of a longer identifier: a word
\* character is next to it on one side
InsideIdentifier(line, query, p) ==
    \/ p > 1 /\ line[p - 1] \in WordRight
    \/ p + Len(query) <= Len(line) /\ line[p + Len(query)] \in WordLeft
OnlyInsideIdentifiers(line, query) ==
    /\ Occurrences(line, query) # {}
    /\ \A p \in Occurrences(line, query) : InsideIdentifier(line, query, p)

\* C12: a line in which the query occurs only as a proper part of a longer
\* identifier does not match the pattern of the query and yields no result,
\* for JS and for PHP
C12_NoMatchInsideIdentifier ==
    LineScanDone =>
        \A i \in 1..Len(Lines(file.content)) :
            OnlyInsideIdentifiers(Lines(file.content)[i], config.query) =>
                /\ ~is_match(Lines(file.content)[i], config.query, config.file_type)
                /\ \A k \in 1..Len(LineScan) : LineScan[k].line_number # Some(i)

\* search returned for the second time
ReturnedAgain == previous # <<>> /\ main.pc \in {"returned", "exited"}

\* C13: a second call of search with the same Config returns the elements
\* the first call returned, with the same multiplicities, or Err as the first
\* did, whatever the interleavings of the two; and the Config is the same
\* after each call
C13_SameResultsWhenRunAgain ==
    /\ previous # <<>> => config = previous[1].config
    /\ ReturnedAgain =>
          /\ ret.kind = previous[1].ret.kind
          /\ SameElements(ret.value, previous[1].ret.value)

\* the two calls returned the same results in two different orders
C13_Witness ==
    /\ ReturnedAgain
    /\ ret.kind = "Ok"
    /\ Len(ret.value) >= 2
    /\ ret.value # previous[1].ret.value

\* the call of wait_for_all_jobs_and_stop that drop makes after search called
\* it itself
SecondWait == main.then = "ok" /\ main.pc \in {"stop", "join"}

\* C14: wait_for_all_jobs_and_stop called on a pool it has already stopped
\* finds the sender and every handle taken: it has no thread to wait for,
\* does not panic, and leaves the pool, the workers, the queue and the
\* results as they were
C14_SecondWaitIsNoOp ==
    /\ [](SecondWait =>
            /\ ~pool.sender
            /\ \A w \in Workers : ~pool.thread[w] /\ worker[w].pc = "exited")
    /\ [][SecondWait =>
            /\ pool' = pool /\ worker' = worker /\ queue' = queue
            /\ results' = results /\ ret' = ret
            /\ main'.pc \in {"join", "returned"}]_vars

\* the second call has gone past the first of two workers
C14_Witness ==
    /\ SecondWait
    /\ main.pc = "join"
    /\ main.join = 2
    /\ Cardinality(Workers) >= 2
    /\ results # <<>>

\* search has returned to its caller
SearchReturned == main.pc \in {"returned", "exited"}

\* C15: when search has returned, with Ok or with Err, the sender is dropped,
\* no job is queued, every job submitted has run to its end, and every worker
\* thread has ended and been joined
C15_PoolStoppedOnEveryReturn ==
    SearchReturned =>
        /\ ret.kind \in {"Ok", "Err"}
        /\ ~pool.sender
        /\ queue = <<>>
        /\ \A n \in 1..main.submitted : Count(n, done) = 1
        /\ \A w \in Workers :
              worker[w].pc = "exited" /\ worker[w].job = NoJob /\ ~pool.thread[w]

\* search returned Err after it had submitted a job to two workers
C15_Witness ==
    /\ SearchReturned
    /\ ret.kind = "Err"
    /\ main.submitted >= 1
    /\ Cardinality(Workers) >= 2

\* --type names no file type
UnknownType ==
    /\ args.file_type # None
    /\ args.file_type[1] \notin {"js", "ts", "jsx", "tsx", "javascript", "javascript.jsx",
                                  "javascriptreact", "typescript", "typescript.tsx",
                                  "typescriptreact", "php"}
\* no --type, and no file under the roots, or under . without roots, has the
\* extension of a file type
GuessFails ==
    /\ args # NoArgs
    /\ args.file_type = None
    /\ LET roots == IF args.file_path = None THEN <<".">> ELSE args.file_path[1]
       IN \A r \in 1..Len(roots) : \A e \in 1..Len(Walk(roots[r])) :
              Walk(roots[r])[e].kind = "file" =>
                  Walk(roots[r])[e].path[Len(Walk(roots[r])[e].path)]
                      \notin {"js", "jsx", "ts", "tsx", "mjs", "cjs", "php"}

\* C16: with a --type that names no file type, or with no --type and no file
\* to guess it from, no Config is made, no worker is spawned, no job is
\* submitted or run, and the process ends with a status that is not 0 and
\* prints nothing
C16_BadFileTypeStopsBeforeSearch ==
    UnknownType \/ GuessFails =>
        /\ config = NoConfig
        /\ Workers = {} /\ ~pool.sender
        /\ main.submitted = 0 /\ queue = <<>> /\ done = <<>> /\ results = <<>>
        /\ ret.kind = "none"
        /\ main.pc \in {"config", "exited"}
        /\ main.pc = "exited" => exit.status # 0 /\ exit.stdout = <<>>
        /\ main.pc = "config" => exit = Running

\* the process ended on --type rs with a root that holds JS and PHP files
C16_Witness ==
    /\ UnknownType
    /\ main.pc = "exited"
    /\ exit.status = USAGE
    /\ args.file_path # None
    /\ \E r \in 1..Len(args.file_path[1]) : args.file_path[1][r] = "src"

\* what a search of the r-th root alone returns, as a set: the results of
\* the scans of the files of the configured type its walk yields
AloneSet(r) ==
    LET entries == Walk(config.file_paths[r])
        own == {e \in 1..Len(entries) :
                   entries[e].kind = "file" /\ HasOwnExtension(entries[e].path)}
    IN UNION {Range(ScanAlone(FileAt(entries[e].path))) : e \in own}

\* C17: the set of the results a search of several roots returns is the
\* union of the sets the searches of each root alone return
C17_UnionOfTheRoots ==
    ret.kind = "Ok" =>
        Range(ret.value) = UNION {AloneSet(r) : r \in 1..Len(config.file_paths)}

\* two workers returned the results of two roots that both have some and do
\* not have the same
C17_Witness ==
    /\ ret.kind = "Ok"
    /\ Cardinality(Workers) >= 2
    /\ Len(config.file_paths) = 2
    /\ AloneSet(1) # {} /\ AloneSet(2) # {}
    /\ AloneSet(1) # AloneSet(2)

\* C18: when the query occurs in the file, the streaming pre-scan does not
\* end with false, wherever the boundaries between the reads fall
C18_NoFalseNegative ==
    prescan.verdict = "false" => ~Find(file.content, config.query)

\* where the last newline of the first n bytes of the file is, or 0
LastNewlineBefore(n) ==
    IF \E i \in 1..n : file.content[i] = "\n"
    THEN CHOOSE i \in 1..n : file.content[i] = "\n" /\ \A j \in (i + 1)..n : file.content[j] # "\n"
    ELSE 0

\* C19: each time the finder runs, the rolling buffer is the bytes of the
\* file from after the last newline before the chunk just read to the last
\* byte read, and nothing else
C19_RollingBufferIsFileTail ==
    prescan.read > 0 =>
        prescan.full = SubSeq(file.content,
                              LastNewlineBefore(prescan.off - prescan.read) + 1,
                              prescan.off)

\* the i-th line of the scanned file does not decode as UTF-8
Undecodable(i) ==
    \E c \in 1..Len(Lines(file.content)[i]) : Lines(file.content)[i][c] = "BAD"
\* the i-th line decodes and matches the pattern
DecodesAndMatches(i) ==
    /\ ~Undecodable(i)
    /\ is_match(Lines(file.content)[i], config.query, config.file_type)

\* C20: in the line-by-line pass a line that does not decode yields no
\* result and no error: the pass makes its one call with the results of the
\* lines that decode and match, those after the undecodable line too
C20_UndecodableLineIsSkipped ==
    LineScanDone =>
        /\ Len(delivered["NoPrescan"]) = 1
        /\ Len(LineScan) =
               Cardinality({i \in 1..Len(Lines(file.content)) : DecodesAndMatches(i)})
        /\ config.line_number =>
              \A i \in 1..Len(Lines(file.content)) :
                  /\ Undecodable(i) =>
                        \A k \in 1..Len(LineScan) : LineScan[k].line_number # Some(i)
                  /\ DecodesAndMatches(i) =>
                        \E k \in 1..Len(LineScan) :
                            /\ LineScan[k].line_number = Some(i)
                            /\ IsTrimOf(LineScan[k].text, Lines(file.content)[i])

\* the first line does not decode and the second is reported
C20_Witness ==
    /\ LineScanDone
    /\ Len(Lines(file.content)) = 2
    /\ Undecodable(1)
    /\ DecodesAndMatches(2)
    /\ Len(LineScan) = 1
    /\ LineScan[1].line_number = Some(2)

\* the scanned file is empty, or holds a byte that is not UTF-8
EmptyOrNotText ==
    \/ file.content = <<>>
    \/ \E c \in 1..Len(file.content) : file.content[c] = "BAD"

\* C21: under PrescanRegex a file that is empty or does not decode as a whole
\* is a file without a match: search_file makes its one call with no result,
\* whatever its lines are
C21_UnreadableIsNoMatchForRegexPrescan ==
    "PrescanRegex" \in DOMAIN delivered /\ EmptyOrNotText =>
        delivered["PrescanRegex"] = << <<>> >>

\* a file with a line that matches and a line that does not decode: the line
\* pass alone reports the line, PrescanRegex reports nothing
C21_Witness ==
    /\ DOMAIN delivered = SearchMethods
    /\ Healthy(file)
    /\ EmptyOrNotText
    /\ delivered["NoPrescan"][1] # <<>>
    /\ delivered["PrescanRegex"] = << <<>> >>

\* the query of the command line has a parenthesis without its pair
UnbalancedQuery ==
    /\ args # NoArgs
    /\ Count("(", args.query) # Count(")", args.query)

\* C22: with a query whose pattern does not compile the program fails
\* before search makes its pool: no worker is spawned, no job is submitted or
\* run, nothing is collected or printed, and search does not return
C22_BadQueryFailsBeforePool ==
    UnbalancedQuery =>
        /\ Workers = {} /\ ~pool.sender
        /\ main.submitted = 0 /\ queue = <<>> /\ done = <<>> /\ results = <<>>
        /\ ret.kind = "none"
        /\ exit.stdout = <<>> /\ exit.status # 0
        /\ main.pc \in {"config", "panicked", "exited"}
        /\ main.pc = "exited" => UnknownType \/ GuessFails

\* search panicked on the query, with a type and a root that has files of it
C22_Witness ==
    /\ UnbalancedQuery
    /\ main.pc = "panicked"
    /\ config.file_type = "JS"
    /\ \E r \in 1..Len(config.file_paths) : config.file_paths[r] = "src"

\* the worker runs search_file on the file of its job: open, pre-scan, rewind,
\* line pass
Scanning(w) == worker[w].pc = "job"

\* C23: a worker that scans a file holds neither the lock of the receiver
\* nor the lock of the results; the first is held only while the worker is
\* in recv, the second only for the extend, and never both by one worker
C23_NoLockWhileScanning ==
    \A w \in Workers :
        /\ Scanning(w) => queueLock # w /\ resultsLock # w
        /\ queueLock = w => worker[w].pc = "recv"
        /\ resultsLock = w => worker[w].pc = "extend"
        /\ ~(queueLock = w /\ resultsLock = w)

\* two workers scan two files at the same time, and both locks are free
C23_Witness ==
    /\ \E v, w \in Workers : v # w /\ Scanning(v) /\ Scanning(w)
    /\ queueLock = 0
    /\ resultsLock = 0

\* a worker thread has not ended
SomeWorkerAlive == \E w \in Workers : worker[w].pc # "exited"
\* search is past wait_for_all_jobs_and_stop and takes the vector of results
Collecting == main.pc = "collect" \/ ret.kind = "Ok"

\* C24: while a worker is alive the vector of results only grows at its end
\* and search does not take it; when search takes it every worker has exited
\* and no job holds a clone of its Arc, so that Arc::into_inner does not fail
C24_ResultsAppendOnlyUntilCollected ==
    /\ [](Collecting =>
            /\ ~SomeWorkerAlive
            /\ queue = <<>>
            /\ \A w \in Workers : worker[w].job = NoJob)
    /\ [](main.pc # "panicked")
    /\ [][/\ Len(results') >= Len(results)
          /\ SubSeq(results', 1, Len(results)) = results
          /\ SomeWorkerAlive => ret' = ret /\ ret.kind = "none"]_vars

\* search takes the results two workers appended
C24_Witness ==
    /\ main.pc = "collect"
    /\ Cardinality(Workers) >= 2
    /\ Len(results) >= 2

\* wait_for_all_jobs_and_stop has dropped the sender and waits for the threads
ChannelClosed == main.pc = "join" /\ main.then # "ok"
\* every worker has exited and the call has returned
WaitOver ==
    /\ \A w \in Workers : worker[w].pc = "exited"
    /\ \/ main.pc \in {"collect", "returned", "exited"}
       \/ main.then = "ok"

\* C25: once the channel is closed every worker exits and
\* wait_for_all_jobs_and_stop returns, in the end, whatever the number of
\* workers and their interleaving
C25_WaitReturnsInTheEnd == ChannelClosed ~> WaitOver

\* the channel is closed and empty, one worker is blocked in recv with the
\* lock of the receiver, and another waits for that lock
C25_Witness ==
    /\ ChannelClosed
    /\ queue = <<>>
    /\ \E v, w \in Workers :
          /\ worker[v].pc = "recv" /\ queueLock = v
          /\ worker[w].pc = "lock"

\* execute has been called after wait_for_all_jobs_and_stop
LateExecute == main.then = "execute"

\* C26: execute called on a pool that wait_for_all_jobs_and_stop has stopped
\* panics: the job is not queued and not run, and no worker comes back
C26_NoWorkAfterStop ==
    LateExecute =>
        /\ main.pc = "panicked"
        /\ ~pool.sender
        /\ queue = <<>>
        /\ Len(done) = main.submitted
        /\ \A w \in Workers : worker[w].pc = "exited" /\ worker[w].job = NoJob

\* the late call came after two workers had run a job
C26_Witness ==
    /\ LateExecute
    /\ main.pc = "panicked"
    /\ main.submitted >= 1
    /\ Cardinality(Workers) >= 2

\* the results the scan under one search method has reported
Reported(method) == delivered[method][1]

\* the pre-scan of the method has read past the first byte of the file
PrescanHasRead(method) ==
    PrescanConsumed(file, [config EXCEPT !.search_method = method]) > 0

\* C27: the line-by-line pass starts at the first byte of the file whatever
\* the pre-scan has read: under every search method the results reported
\* carry the positions of the matching lines counted from the start of the
\* file, and two methods that report results report the same line numbers
C27_LineNumbersFromTheFirstByte ==
    \A method \in DOMAIN delivered :
        \/ Reported(method) = <<>>
        \/ /\ Healthy(file)
           /\ Len(Reported(method)) = Cardinality(MatchPositions)
           /\ \A k \in 1..Len(Reported(method)) :
                 Reported(method)[k].line_number =
                     IF config.line_number THEN Some(KthMatch(k)) ELSE None
           /\ \A other \in DOMAIN delivered :
                 Reported(other) # <<>> =>
                     \A k \in 1..Len(Reported(method)) :
                         Reported(other)[k].line_number = Reported(method)[k].line_number

\* the three methods have reported the match on the second line, after the
\* two pre-scans have read the file
C27_Witness ==
    /\ DOMAIN delivered = SearchMethods
    /\ config.line_number
    /\ PrescanHasRead("PrescanRegex")
    /\ PrescanHasRead("PrescanMemmem")
    /\ ~PrescanHasRead("NoPrescan")
    /\ 1 \notin MatchPositions
    /\ \A method \in SearchMethods :
          Len(Reported(method)) = 1 /\ Reported(method)[1].line_number = Some(2)

\* the jobs execute has accepted, by their number
Accepted == 1..main.submitted
\* the places of the channel that hold job n
Waiting(n) == {i \in 1..Len(queue) : queue[i].n = n}
\* the workers that have received job n and have not finished it
HeldBy(n) == {w \in Workers : worker[w].job # NoJob /\ worker[w].job.n = n}
\* the times job n has been run to its end
Finished(n) == {i \in 1..Len(done) : done[i] = n}

\* C28: every job execute has accepted is on the channel, or with exactly one
\* worker, or has been run once, and never two of these: no job is run twice
\* and none is lost; when search has returned every job has been run once
C28_EveryJobRunOnce ==
    /\ \A n \in Accepted :
          Cardinality(Waiting(n)) + Cardinality(HeldBy(n)) + Cardinality(Finished(n)) = 1
    /\ \A i \in 1..Len(done) : done[i] \in Accepted
    /\ \A i \in 1..Len(queue) : queue[i].n \in Accepted
    /\ main.pc = "returned" => \A n \in Accepted : Cardinality(Finished(n)) = 1

\* two workers run two jobs at the same time, and both jobs end up run
C28_Witness ==
    /\ main.pc = "returned"
    /\ main.submitted = 2
    /\ Cardinality(Workers) = 2
    /\ done = <<2, 1>>

\* worker w ends its job() call in this step
JobReturns(w) == worker[w].pc = "job" /\ worker'[w].pc # "job"
\* worker w makes the extend of a callback call in this step
Appends(w) == worker[w].pc = "extend" /\ worker'[w].pc # "extend"
\* what the step has added at the end of the result collection
Appended == SubSeq(results', Len(results) + 1, Len(results'))

\* C29: search_file calls its callback exactly once whichever way it ends, so
\* a job makes one append, the append ends the job and carries results of
\* the file of that job only, a job ends in no other way, and when search
\* has returned there have been as many appends as submitted jobs
C29_OneAppendPerJob ==
    [][ /\ \A w \in Workers :
             /\ JobReturns(w) =>
                    /\ worker'[w].pc = "callback"
                    /\ Len(worker'[w].calls) = 1
             /\ Appends(w) =>
                    /\ worker'[w].pc = "lock"
                    /\ done' = Append(done, worker[w].job.n)
                    /\ results' = results \o Appended
                    /\ \A k \in 1..Len(Appended) :
                          Appended[k].file_path = worker[w].job.path
        /\ (done' # done => \E v \in Workers : Appends(v))
        /\ (main'.pc = "returned" => Len(done') = main'.submitted) ]_vars

\* the pre-scan has rejected the file of one worker, which appends nothing,
\* while another worker waits to append the result of its line scan
C29_Witness ==
    \E w, v \in Workers :
        /\ worker[w].pc = "extend"
        /\ worker[w].calls = << <<>> >>
        /\ FileAt(worker[w].job.path).open_ok
        /\ PrescanSkips(FileAt(worker[w].job.path), config)
        /\ worker[v].pc = "callback"
        /\ Len(worker[v].calls) = 1
        /\ worker[v].calls[1] # <<>>

Lowest(S) == CHOOSE x \in S : \A y \in S : x <= y
Highest(S) == CHOOSE x \in S : \A y \in S : y <= x
\* the places of the result collection that hold results of job n
Block(n) == {i \in 1..Len(origin) : origin[i] = n}

\* C30: at any time the results a scan job has appended are all the results
\* of its scan, next to each other in the collection with no result of
\* another job between them, and search returns the collection as it is
C30_OneBlockPerJob ==
    /\ Len(origin) = Len(results)
    /\ \A i \in 1..Len(results) :
          /\ Block(origin[i]) = Lowest(Block(origin[i]))..Highest(Block(origin[i]))
          /\ Cardinality(Block(origin[i])) = Len(ScanAlone(FileAt(results[i].file_path)))
          /\ \A k \in Block(origin[i]) : results[k].file_path = results[i].file_path
    /\ ret.kind = "Ok" => ret.value = results

\* a worker holds the lock to append the two results of its job behind the
\* block of a job submitted after it
C30_Witness ==
    \E w \in Workers :
        /\ worker[w].pc = "extend"
        /\ resultsLock = w
        /\ Len(worker[w].calls[1]) = 2
        /\ results # <<>>
        /\ \A i \in 1..Len(origin) : origin[i] > worker[w].job.n

\* the jobs received so far are the first ones submitted, and the channel
\* holds the others in the order of their submission
QueueInSubmissionOrder ==
    \A i \in 1..Len(queue) :
        /\ queue[i].n = main.submitted - Len(queue) + i
        /\ queue[i].path = Candidates[queue[i].n]

\* C31: the workers take the jobs from the channel in the order search
\* submitted them, which is the order of discovery; with one worker search
\* returns the results file after file in discovery order
C31_FifoAndDiscoveryOrderWithOneWorker ==
    /\ QueueInSubmissionOrder
    /\ \A w \in Workers :
          worker[w].job # NoJob => worker[w].job.n <= main.submitted - Len(queue)
    /\ \A d \in 1..Len(done) : done[d] <= main.submitted - Len(queue)
    /\ Cardinality(Workers) = 1 =>
          /\ \A d \in 1..Len(done) : done[d] = d
          /\ ret.kind = "Ok" => ret.value = SequentialResults

\* one worker has returned the results of two files, first file first
C31_Witness ==
    /\ Cardinality(Workers) = 1
    /\ ret.kind = "Ok"
    /\ done = <<1, 2>>
    /\ ret.value = SequentialResults
    /\ ret.value[1].file_path = Candidates[1]
    /\ ret.value[Len(ret.value)].file_path = Candidates[2]
    /\ Candidates[1] # Candidates[2]

=============================================================================
